---- MODULE Spec2Model ----
(***************************************************************************)
(* A model of src/src/eckey.cc: the BitcoinKey object (an OpenSSL EC_KEY   *)
(* container plus the hasPrivate / hasPublic flags), its synchronous       *)
(* operations, and the offloaded verifySignature path (uv_queue_work:      *)
(* EIO_VerifySignature on a worker thread, VerifySignatureCallback on the  *)
(* event loop).                                                            *)
(*                                                                         *)
(* The curve is scaled down to the additive group Z_Order with generator   *)
(* 1: a private scalar s has the public point s % Order, 0 is the point    *)
(* at infinity.  Byte strings are sequences; a digest is its length and a  *)
(* content id.                                                             *)
(***************************************************************************)
EXTENDS Integers, Sequences, FiniteSets, TLC

\* ---------------------------------------------------------------- bounds
\* Number of verifySignature requests that can be in flight at a time.
MaxReqs == 1
\* Order of the scaled-down curve group (secp256k1's order in the code).
Order == 3

\* ------------------------------------------------------ program constants
\* A NULL pointer (an absent BIGNUM, EC_POINT, ECDSA_SIG).
NULL == -1
\* Required digest length (lines 396, 491, 533).
HashLen == 32
\* First byte of a DER SEQUENCE (ECPrivateKey, ECDSA-Sig-Value).
DerSeq == 48
\* First byte of an uncompressed SEC1 point.
Sec1Uncompressed == 4
\* baton->result before the worker has run (line 408).
ResultInit == -1
\* Width of the buffer getPrivate returns (lines 209, 218).
PrivLen == 32

Scalars == 1..(Order - 1)
\* Coordinates that are not a point of the curve (an encoding that decodes
\* to them is rejected by the on-curve test).
OffCurve == Order
DigestLens == {0, 1, 31, HashLen, 33, 64}
\* Contents of a digest buffer: the digest SigInputs was signed over, and
\* another one.
DigestVals == {1, 2}
Digests == {[len |-> HashLen, val |-> v] : v \in DigestVals}
             \cup {[len |-> l, val |-> 1] : l \in DigestLens \ {HashLen}}
NoArg == [len |-> NULL, val |-> NULL]

\* ------------------------------------------------------------- messages
ErrRegenerate == "Regeneration requires a private key."
ErrNoPrivate == "BitcoinKey does not have a private key set"
ErrNoPublic == "BitcoinKey does not have a public key set"
ErrHashLen == "Argument 'hash' must be Buffer of length 32 bytes"
ErrVerify == "Error during ECDSA_verify"
ErrVerifyUndefined == "ECDSA_verify gave undefined return value"
ErrFromDER == "Error from d2i_ECPrivateKey(&key, &data, len)"
ErrCurve == "Error from EC_KEY_new_by_curve_name"
ErrGenerate == "Error from EC_KEY_generate_key"

\* ----------------------------------------------------- the curve library
\* EC_KEY containers.  alloc = FALSE is the NULL pointer.
NullEC == [alloc |-> FALSE, priv |-> NULL, pub |-> NULL]
\* EC_KEY_new_by_curve_name(NID_secp256k1) when it succeeds.
FreshEC == [alloc |-> TRUE, priv |-> NULL, pub |-> NULL]

\* BN_bin2bn: the big-endian unsigned integer of a byte string.
RECURSIVE BN_bin2bn(_)
BN_bin2bn(bytes) ==
  IF bytes = <<>> THEN 0
  ELSE 256 * BN_bin2bn(SubSeq(bytes, 1, Len(bytes) - 1)) + bytes[Len(bytes)]

\* BN_bn2bin: the big-endian bytes of a number, without leading zeros
\* (BN_num_bytes of them; none for 0).
RECURSIVE BN_bn2bin(_)
BN_bn2bin(bn) ==
  IF bn = 0 THEN <<>> ELSE Append(BN_bn2bin(bn \div 256), bn % 256)
BN_num_bytes(bn) == Len(BN_bn2bin(bn))

\* EC_POINT_mul(group, pub_key, priv_key, NULL, NULL, ctx): priv_key * G;
\* a NULL scalar gives the point at infinity.
EC_POINT_mul(priv_key) == IF priv_key = NULL THEN 0 ELSE priv_key % Order

\* i2d_ECDSA_SIG / d2i_ECDSA_SIG: an ECDSA signature made with scalar s over
\* digest content d is the pair (s, d); its DER form is a tagged sequence.
i2d_ECDSA_SIG(sig) == <<DerSeq, sig.signer, sig.dg>>
SigWellFormed(bytes) == Len(bytes) = 3 /\ bytes[1] = DerSeq
d2i_ECDSA_SIG(bytes) == [signer |-> bytes[2], dg |-> bytes[3]]

\* i2d_ECPrivateKey / d2i_ECPrivateKey: scalar and embedded public point.
i2d_ECPrivateKey(ec) == <<DerSeq, ec.priv, ec.pub>>
DerKeyWellFormed(bytes) ==
  /\ Len(bytes) = 3
  /\ bytes[1] = DerSeq
  /\ bytes[2] \in Scalars
  /\ bytes[3] \in 0..(Order - 1)

\* i2o_ECPublicKey: the octet encoding of the container's point; 0 bytes
\* for a NULL container or a container without point.  The encoder does
\* not test that the coordinates are on the curve.
i2o_ECPublicKey(ec) ==
  IF ~ec.alloc \/ ec.pub = NULL THEN <<>>
  ELSE IF ec.pub = 0 THEN <<0>>
  ELSE <<Sec1Uncompressed, ec.pub>>

\* ECDSA_verify(0, digest, digest_len, sig, sig_len, ec): 1 valid, 0
\* invalid, -1 error.  The signature is decoded first; then the key must
\* hold a public point.
ECDSA_verify(digest, sig, ec) ==
  IF ~SigWellFormed(sig) THEN -1
  ELSE IF ec.pub = NULL THEN -1
  ELSE IF /\ ec.pub \in 1..(Order - 1)
          /\ ec.pub = EC_POINT_mul(d2i_ECDSA_SIG(sig).signer)
          /\ d2i_ECDSA_SIG(sig).dg = digest.val
       THEN 1
  ELSE 0

\* ECDSA_verify on a NULL EC_KEY dereferences it once the signature has
\* been decoded.
ECDSA_verify_segv(sig, ec) == SigWellFormed(sig) /\ ~ec.alloc

\* ----------------------------------------------------------- input sets
PrivInputs == {<<s>> : s \in Scalars} \cup {<<0, 1>>}
PubInputs == {<<Sec1Uncompressed, p>> : p \in Scalars}
               \cup {<<Sec1Uncompressed, OffCurve>>, <<0>>, <<>>}
\* A signature made with scalar 1 over digest content 1, and bytes that are
\* no DER signature.
SigInputs == {i2d_ECDSA_SIG([signer |-> 1, dg |-> 1]), <<>>}
\* What the library does in a regenerate: all calls succeed, the point
\* multiplication (or an allocation before it) fails, no container is made.
RegenInputs == {<<TRUE, "ok">>, <<TRUE, "EC_POINT_mul">>, <<FALSE, "ok">>}
\* What the bytes of a malloc'ed block read as before they are written.
HeapBytes == {0, 170}
DerInputs == {i2d_ECPrivateKey([priv |-> s, pub |-> EC_POINT_mul(s)]) :
                s \in Scalars} \cup {<<>>}

\* ----------------------------------------------------------------- state
VARIABLES
  key,      \* the BitcoinKey the caller works on: hasPrivate, hasPublic, ec
  refs,     \* ObjectWrap reference count of the key above its baseline
  batons,   \* verify_sig_baton_t / uv_work_t of each request slot
  calls,    \* how many times each request's callback function was called
  ret,      \* what the last operation gave its caller
  crashed   \* the process died on a NULL or released container

vars == <<key, refs, batons, calls, ret, crashed>>

Reqs == 1..MaxReqs

\* BitcoinKey::BitcoinKey() when the curve is available.
NewKey == [hasPrivate |-> FALSE, hasPublic |-> FALSE, ec |-> FreshEC]
\* No object handed back.
NoObj == [hasPrivate |-> FALSE, hasPublic |-> FALSE, ec |-> NullEC]

\* A slot that holds no baton (never used, or deleted at line 455).
NoBaton(stage) ==
  [stage |-> stage, digest |-> NoArg, sig |-> <<>>, result |-> ResultInit,
   digestBuf |-> FALSE, sigBuf |-> FALSE, cb |-> FALSE,
   argv |-> [err |-> "", res |-> "null"], threw |-> FALSE,
   mutated |-> FALSE, raced |-> FALSE]

\* What an operation gave back: kind is "throw" (VException), "null",
\* "undefined", "true", "false", "bytes" (val) or "key" (obj); prims are
\* the library primitives it ran.
Returned(op, kind, msg, val, prims, obj) ==
  [op |-> op, kind |-> kind, msg |-> msg, val |-> val, prims |-> prims,
   obj |-> obj]
VException(op, msg) == Returned(op, "throw", msg, <<>>, {}, NoObj)

Init ==
  /\ key = NewKey
  /\ refs = 0
  /\ batons = [r \in Reqs |-> NoBaton("free")]
  /\ calls = [r \in Reqs |-> 0]
  /\ ret = Returned("new", "key", "", <<>>, {}, NewKey)
  /\ crashed = FALSE

\* The event-loop thread is between two callbacks: script code can run.
InCallback == \E r \in Reqs : batons[r].stage \in {"released", "called"}
HostCanRun == ~crashed /\ ~InCallback

\* A dereference of a NULL container kills the process.
Segv == crashed' = TRUE /\ UNCHANGED <<key, refs, batons, calls, ret>>

\* The requests a write to the key touches: every request not yet completed
\* has seen the key change; with races, the write is to what a worker reads
\* (the public point, or the container itself), and a worker that is
\* running meanwhile races with it.
Touch(races) ==
  [r \in Reqs |->
     IF batons[r].stage \in {"queued", "running", "done"}
     THEN [batons[r] EXCEPT
             !.mutated = TRUE,
             !.raced = @ \/ (batons[r].stage = "running" /\ races)]
     ELSE batons[r]]

\* ------------------------------------------------- accessors (setters)
\* SetPrivate importing a whole key: it also derives the public point.
SetPrivate_Derives(bytes) ==
  /\ HostCanRun
  /\ IF ~key.ec.alloc THEN Segv
     ELSE /\ key' = [key EXCEPT !.ec.priv = BN_bin2bn(bytes),
                                !.ec.pub = EC_POINT_mul(BN_bin2bn(bytes)),
                                !.hasPrivate = TRUE, !.hasPublic = TRUE]
          /\ batons' = Touch(TRUE)
          /\ ret' = Returned("setPrivate", "undefined", "", <<>>,
                             {"EC_KEY_set_private_key"}, NoObj)
          /\ UNCHANGED <<refs, calls, crashed>>

\* BitcoinKey::SetPrivate: EC_KEY_set_private_key(key->ec, BN_bin2bn(data)).
SetPrivate(bytes) ==
  /\ HostCanRun
  /\ IF ~key.ec.alloc THEN Segv
     ELSE /\ key' = [key EXCEPT !.ec.priv = BN_bin2bn(bytes),
                                !.hasPrivate = TRUE]
          /\ batons' = Touch(FALSE)
          /\ ret' = Returned("setPrivate", "undefined", "", <<>>,
                             {"EC_KEY_set_private_key"}, NoObj)
          /\ UNCHANGED <<refs, calls, crashed>>

\* o2i_ECPublicKey(&(key->ec), &data, len) on a non-NULL container: the
\* point object is created when the container has none; an empty or
\* unknown encoding is refused before the point is written; the one-byte
\* encoding 0 is the point at infinity; the coordinates of an uncompressed
\* encoding are stored in the point before the on-curve test refuses them.
o2i_ECPublicKey(ec, bytes) ==
  LET have == IF ec.pub = NULL THEN [ec EXCEPT !.pub = 0] ELSE ec
  IN  IF bytes = <<0>> THEN [ok |-> TRUE, ec |-> [have EXCEPT !.pub = 0]]
      ELSE IF Len(bytes) # 2 \/ bytes[1] # Sec1Uncompressed
      THEN [ok |-> FALSE, ec |-> have]
      ELSE IF bytes[2] \in Scalars
      THEN [ok |-> TRUE, ec |-> [have EXCEPT !.pub = bytes[2]]]
      ELSE [ok |-> FALSE, ec |-> [have EXCEPT !.pub = OffCurve]]

\* BitcoinKey::SetPublic.  A NULL container is refused by o2i_ECPublicKey.
SetPublic(bytes) ==
  /\ HostCanRun
  /\ LET r == IF key.ec.alloc THEN o2i_ECPublicKey(key.ec, bytes)
              ELSE [ok |-> FALSE, ec |-> key.ec]
     IN  /\ key' = [key EXCEPT !.ec = r.ec,
                               !.hasPublic = IF r.ok THEN TRUE ELSE @]
         /\ batons' = IF r.ok \/ r.ec # key.ec THEN Touch(TRUE) ELSE batons
         /\ ret' = Returned("setPublic", "undefined", "", <<>>,
                            {"o2i_ECPublicKey"}, NoObj)
  /\ UNCHANGED <<refs, calls, crashed>>

\* ------------------------------------------------- accessors (getters)
\* BitcoinKey::GetPrivate.  BN_num_bytes(bn) is evaluated before bn is
\* tested for NULL.  The scalar is written at the end of a malloc'ed block
\* of PrivLen bytes, and the whole block is copied out: the bytes before
\* the scalar are never written (heap is what they read as).
GetPrivate(heap) ==
  /\ HostCanRun
  /\ IF ~key.hasPrivate
     THEN /\ ret' = Returned("getPrivate", "null", "", <<>>, {}, NoObj)
          /\ UNCHANGED <<key, refs, batons, calls, crashed>>
     ELSE IF ~key.ec.alloc \/ key.ec.priv = NULL THEN Segv
     ELSE LET bn == key.ec.priv
              priv_size == BN_num_bytes(bn)
          IN  /\ ret' = IF priv_size > PrivLen
                        THEN Returned("getPrivate", "null", "", <<>>,
                                      {"BN_num_bytes"}, NoObj)
                        ELSE Returned("getPrivate", "bytes", "",
                                      [i \in 1..(PrivLen - priv_size) |-> heap]
                                        \o BN_bn2bin(bn),
                                      {"BN_bn2bin"}, NoObj)
              /\ UNCHANGED <<key, refs, batons, calls, crashed>>

\* BitcoinKey::GetPublic.
GetPublic ==
  /\ HostCanRun
  /\ ret' = IF ~key.hasPublic
            THEN Returned("getPublic", "null", "", <<>>, {}, NoObj)
            ELSE IF i2o_ECPublicKey(key.ec) = <<>>
            THEN Returned("getPublic", "null", "", <<>>,
                          {"i2o_ECPublicKey"}, NoObj)
            ELSE Returned("getPublic", "bytes", "", i2o_ECPublicKey(key.ec),
                          {"i2o_ECPublicKey"}, NoObj)
  /\ UNCHANGED <<key, refs, batons, calls, crashed>>

\* ------------------------------------------------------------ regenerate
\* EC_KEY_regenerate_key(eckey, priv_key); lib is "ok", or the library call
\* that fails (BN_CTX_new, EC_POINT_new, EC_POINT_mul).
EC_KEY_regenerate_key(eckey, priv_key, lib) ==
  IF ~eckey.alloc THEN [ok |-> 0, ec |-> eckey]
  ELSE IF lib # "ok" THEN [ok |-> 0, ec |-> eckey]
  ELSE [ok |-> 1,
        ec |-> [eckey EXCEPT !.priv = priv_key,
                             !.pub = EC_POINT_mul(priv_key)]]

\* The key RegenerateSync leaves (lines 296-303) when the key has a
\* private scalar and a container: the new container replaces the old one
\* whether or not the recomputation succeeded.
Regenerated(k, curve, lib) ==
  LET r == EC_KEY_regenerate_key(IF curve THEN FreshEC ELSE NullEC,
                                 k.ec.priv, lib)
  IN  [k EXCEPT !.ec = r.ec, !.hasPublic = IF r.ok = 1 THEN TRUE ELSE @]

\* RegenerateSync on a container the requests share ownership of: the old
\* container is not freed under a running worker.
RegenerateSync_KeepsOld(curve, lib) ==
  /\ HostCanRun
  /\ IF ~key.hasPrivate
     THEN /\ ret' = VException("regenerateSync", ErrRegenerate)
          /\ UNCHANGED <<key, refs, batons, calls, crashed>>
     ELSE IF ~key.ec.alloc THEN Segv
     ELSE /\ key' = Regenerated(key, curve, lib)
          /\ batons' = Touch(FALSE)
          /\ ret' = Returned("regenerateSync", "undefined", "", <<>>,
                             {"EC_KEY_regenerate_key"}, NoObj)
          /\ UNCHANGED <<refs, calls, crashed>>

\* BitcoinKey::RegenerateSync.  curve is whether EC_KEY_new_by_curve_name
\* gives a container.  EC_KEY_get0_private_key(old) reads the old container.
RegenerateSync(curve, lib) ==
  /\ HostCanRun
  /\ IF ~key.hasPrivate
     THEN /\ ret' = VException("regenerateSync", ErrRegenerate)
          /\ UNCHANGED <<key, refs, batons, calls, crashed>>
     ELSE IF ~key.ec.alloc THEN Segv
     ELSE /\ key' = Regenerated(key, curve, lib)
          /\ batons' = Touch(TRUE)
          /\ ret' = Returned("regenerateSync", "undefined", "", <<>>,
                             {"EC_KEY_regenerate_key"}, NoObj)
          /\ UNCHANGED <<refs, calls, crashed>>

\* ------------------------------------------------------------- DER codec
\* BitcoinKey::ToDER.  i2d_ECPrivateKey gives 0 for a NULL container, for
\* a container without scalar or point, and when the encoder itself fails
\* (lib = FALSE).
ToDER(lib) ==
  /\ HostCanRun
  /\ ret' =
       IF ~key.hasPrivate \/ ~key.hasPublic
       THEN Returned("toDER", "null", "", <<>>, {}, NoObj)
       ELSE IF ~key.ec.alloc \/ key.ec.priv = NULL \/ key.ec.pub = NULL \/ ~lib
       THEN Returned("toDER", "null", "", <<>>, {"i2d_ECPrivateKey"}, NoObj)
       ELSE Returned("toDER", "bytes", "", i2d_ECPrivateKey(key.ec),
                     {"i2d_ECPrivateKey"}, NoObj)
  /\ UNCHANGED <<key, refs, batons, calls, crashed>>

\* BitcoinKey::New(const Arguments&) as a construct call: a new BitcoinKey
\* is made and wrapped, whatever the arguments are.
New(op, curve) ==
  IF ~curve THEN VException(op, ErrCurve)
  ELSE Returned(op, "key", "", <<>>, {}, NewKey)

\* BitcoinKey::Generate: EC_KEY_generate_key(ec) draws the scalar s and
\* sets the point, or fails (lib = FALSE) and leaves lastError.
Generate(k, s, lib) ==
  IF ~lib THEN k
  ELSE [k EXCEPT !.ec.priv = s, !.ec.pub = EC_POINT_mul(s),
                 !.hasPublic = TRUE, !.hasPrivate = TRUE]

\* BitcoinKey::GenerateSync.  BitcoinKey::New() is NULL when the constructor
\* could not get the curve, and key->Generate() is called on it.  The
\* script goes on with the key it is given.
GenerateSync(curve, lib) ==
  /\ HostCanRun
  /\ IF ~curve THEN Segv
     ELSE IF ~lib
     THEN /\ ret' = Returned("generateSync", "throw", ErrGenerate, <<>>,
                             {"EC_KEY_generate_key"}, NoObj)
          /\ UNCHANGED <<key, refs, batons, calls, crashed>>
     ELSE \E s \in Scalars :
            /\ key' = Generate(NewKey, s, lib)
            /\ ret' = Returned("generateSync", "key", "", <<>>,
                               {"EC_KEY_generate_key"}, key')
            /\ UNCHANGED <<refs, batons, calls, crashed>>

\* What BitcoinKey::FromDER gives.  curve1 and curve2 are whether the curve
\* is available to the BitcoinKey made at line 351 and to the one made by
\* cons->NewInstance(1, &external) at line 368.  The decoded key
\* (hasPrivate, hasPublic, scalar der[2], point der[3]) is passed as an
\* External argument, which New ignores.
FromDERValue(der, curve1, curve2) ==
  IF ~curve1 THEN VException("fromDER", ErrCurve)
  ELSE IF ~DerKeyWellFormed(der) THEN VException("fromDER", ErrFromDER)
  ELSE [New("fromDER", curve2) EXCEPT !.prims = {"d2i_ECPrivateKey"}]

\* BitcoinKey::FromDER.
FromDER(der, curve1, curve2) ==
  /\ HostCanRun
  /\ ret' = FromDERValue(der, curve1, curve2)
  /\ UNCHANGED <<key, refs, batons, calls, crashed>>

\* ---------------------------------------------------------------- sign
\* Sign handing a digest_len of 0 to ECDSA_do_sign: the signature is over
\* the empty digest.
Sign_NoDigest(k, digest, lib) ==
  IF k.ec.priv = NULL \/ ~lib THEN <<>>
  ELSE <<[signer |-> k.ec.priv, dg |-> 0]>>

\* BitcoinKey::Sign: ECDSA_do_sign(digest, digest_len, ec); NULL (the empty
\* sequence) when the container has no scalar or the primitive fails
\* (lib = FALSE), else the one signature.
Sign(k, digest, lib) ==
  IF k.ec.priv = NULL \/ ~lib THEN <<>>
  ELSE <<[signer |-> k.ec.priv, dg |-> digest.val]>>

\* SignSync with the length check moved before the hasPrivate check.
SignSync_LengthFirst(hash, lib) ==
  /\ HostCanRun
  /\ IF hash.len # HashLen
     THEN /\ ret' = VException("signSync", ErrHashLen)
          /\ UNCHANGED <<key, refs, batons, calls, crashed>>
     ELSE IF ~key.hasPrivate
     THEN /\ ret' = VException("signSync", ErrNoPrivate)
          /\ UNCHANGED <<key, refs, batons, calls, crashed>>
     ELSE IF ~key.ec.alloc THEN Segv
     ELSE LET sig == Sign(key, hash, lib)
          IN  /\ ret' = IF sig = <<>>
                        THEN Returned("signSync", "null", "", <<>>,
                                      {"ECDSA_do_sign", "i2d_ECDSA_SIG"},
                                      NoObj)
                        ELSE Returned("signSync", "bytes", "",
                                      i2d_ECDSA_SIG(sig[1]),
                                      {"ECDSA_do_sign", "i2d_ECDSA_SIG"},
                                      NoObj)
              /\ UNCHANGED <<key, refs, batons, calls, crashed>>

\* BitcoinKey::SignSync.  What Sign gave goes to i2d_ECDSA_SIG, also when
\* it is NULL; i2d_ECDSA_SIG(NULL, NULL) is 0.
SignSync(hash, lib) ==
  /\ HostCanRun
  /\ IF ~key.hasPrivate
     THEN /\ ret' = VException("signSync", ErrNoPrivate)
          /\ UNCHANGED <<key, refs, batons, calls, crashed>>
     ELSE IF hash.len # HashLen
     THEN /\ ret' = VException("signSync", ErrHashLen)
          /\ UNCHANGED <<key, refs, batons, calls, crashed>>
     ELSE IF ~key.ec.alloc THEN Segv
     ELSE LET sig == Sign(key, hash, lib)
          IN  /\ ret' = IF sig = <<>>
                        THEN Returned("signSync", "null", "", <<>>,
                                      {"ECDSA_do_sign", "i2d_ECDSA_SIG"},
                                      NoObj)
                        ELSE Returned("signSync", "bytes", "",
                                      i2d_ECDSA_SIG(sig[1]),
                                      {"ECDSA_do_sign", "i2d_ECDSA_SIG"},
                                      NoObj)
              /\ UNCHANGED <<key, refs, batons, calls, crashed>>

\* -------------------------------------------------------------- verify
\* int BitcoinKey::VerifySignature(digest, digest_len, sig, sig_len).
KeyVerifySignature(k, digest, sig) == ECDSA_verify(digest, sig, k.ec)

\* The result mapping with the case -1 falling through to case 0.
VerifySyncReturn_FallThrough(result) ==
  IF result = -1 \/ result = 0
  THEN Returned("verifySignatureSync", "false", "", <<>>,
                {"ECDSA_verify"}, NoObj)
  ELSE IF result = 1
  THEN Returned("verifySignatureSync", "true", "", <<>>,
                {"ECDSA_verify"}, NoObj)
  ELSE Returned("verifySignatureSync", "throw", ErrVerifyUndefined, <<>>,
                {"ECDSA_verify"}, NoObj)

\* The result mapping of VerifySignatureSync (lines 498-508).
VerifySyncReturn(result) ==
  IF result = -1
  THEN Returned("verifySignatureSync", "throw", ErrVerify, <<>>,
                {"ECDSA_verify"}, NoObj)
  ELSE IF result = 0
  THEN Returned("verifySignatureSync", "false", "", <<>>,
                {"ECDSA_verify"}, NoObj)
  ELSE IF result = 1
  THEN Returned("verifySignatureSync", "true", "", <<>>,
                {"ECDSA_verify"}, NoObj)
  ELSE Returned("verifySignatureSync", "throw", ErrVerifyUndefined, <<>>,
                {"ECDSA_verify"}, NoObj)

\* VerifySignatureSync without the length check of line 491.
VerifySignatureSyncValue_NoLengthCheck(k, hash, sig) ==
  IF ~k.hasPublic THEN VException("verifySignatureSync", ErrNoPublic)
  ELSE VerifySyncReturn(KeyVerifySignature(k, hash, sig))

\* What VerifySignatureSync gives for a key, a digest and signature bytes
\* (the container not NULL).
VerifySignatureSyncValue(k, hash, sig) ==
  IF ~k.hasPublic THEN VException("verifySignatureSync", ErrNoPublic)
  ELSE IF hash.len # HashLen THEN VException("verifySignatureSync", ErrHashLen)
  ELSE VerifySyncReturn(KeyVerifySignature(k, hash, sig))

\* BitcoinKey::VerifySignatureSync.
VerifySignatureSync(hash, sig) ==
  /\ HostCanRun
  /\ IF key.hasPublic /\ hash.len = HashLen /\ ECDSA_verify_segv(sig, key.ec)
     THEN Segv
     ELSE /\ ret' = VerifySignatureSyncValue(key, hash, sig)
          /\ UNCHANGED <<key, refs, batons, calls, crashed>>

\* ------------------------------------------------- the offloaded verify
\* VerifySignature without the key->Ref() of line 411.
VerifySignature_NoRef(hash, sig) ==
  /\ HostCanRun
  /\ IF ~key.hasPublic
     THEN /\ ret' = VException("verifySignature", ErrNoPublic)
          /\ UNCHANGED <<key, refs, batons, calls, crashed>>
     ELSE IF hash.len # HashLen
     THEN /\ ret' = VException("verifySignature", ErrHashLen)
          /\ UNCHANGED <<key, refs, batons, calls, crashed>>
     ELSE /\ \E r \in Reqs :
               /\ batons[r].stage \in {"free", "deleted"}
               /\ \A q \in 1..(r - 1) : batons[q].stage \notin {"free", "deleted"}
               /\ calls' = [calls EXCEPT ![r] = 0]
               /\ batons' = [batons EXCEPT ![r] =
                    [NoBaton("queued") EXCEPT
                       !.digest = hash, !.sig = sig, !.result = ResultInit,
                       !.digestBuf = TRUE, !.sigBuf = TRUE, !.cb = TRUE]]
          /\ ret' = Returned("verifySignature", "undefined", "", <<>>,
                             {"uv_queue_work"}, NoObj)
          /\ UNCHANGED <<key, refs, crashed>>

\* VerifySignature without the length check of line 396.
VerifySignature_NoLengthCheck(hash, sig) ==
  /\ HostCanRun
  /\ IF ~key.hasPublic
     THEN /\ ret' = VException("verifySignature", ErrNoPublic)
          /\ UNCHANGED <<key, refs, batons, calls, crashed>>
     ELSE /\ \E r \in Reqs :
               /\ batons[r].stage \in {"free", "deleted"}
               /\ \A q \in 1..(r - 1) : batons[q].stage \notin {"free", "deleted"}
               /\ calls' = [calls EXCEPT ![r] = 0]
               /\ batons' = [batons EXCEPT ![r] =
                    [NoBaton("queued") EXCEPT
                       !.digest = hash, !.sig = sig, !.result = ResultInit,
                       !.digestBuf = TRUE, !.sigBuf = TRUE, !.cb = TRUE]]
          /\ refs' = refs + 1
          /\ ret' = Returned("verifySignature", "undefined", "", <<>>,
                             {"uv_queue_work"}, NoObj)
          /\ UNCHANGED <<key, crashed>>

\* BitcoinKey::VerifySignature(const Arguments&): the checks, then the
\* baton, key->Ref() and uv_queue_work.  The request takes the lowest
\* slot that holds no baton.
VerifySignature(hash, sig) ==
  /\ HostCanRun
  /\ IF ~key.hasPublic
     THEN /\ ret' = VException("verifySignature", ErrNoPublic)
          /\ UNCHANGED <<key, refs, batons, calls, crashed>>
     ELSE IF hash.len # HashLen
     THEN /\ ret' = VException("verifySignature", ErrHashLen)
          /\ UNCHANGED <<key, refs, batons, calls, crashed>>
     ELSE /\ \E r \in Reqs :
               /\ batons[r].stage \in {"free", "deleted"}
               /\ \A q \in 1..(r - 1) : batons[q].stage \notin {"free", "deleted"}
               /\ calls' = [calls EXCEPT ![r] = 0]
               /\ batons' = [batons EXCEPT ![r] =
                    [NoBaton("queued") EXCEPT
                       !.digest = hash, !.sig = sig, !.result = ResultInit,
                       !.digestBuf = TRUE, !.sigBuf = TRUE, !.cb = TRUE]]
          /\ refs' = refs + 1
          /\ ret' = Returned("verifySignature", "undefined", "", <<>>,
                             {"uv_queue_work"}, NoObj)
          /\ UNCHANGED <<key, crashed>>

\* A worker thread of the pool takes the work item.
EIO_Begin(r) ==
  /\ ~crashed
  /\ batons[r].stage = "queued"
  /\ batons' = [batons EXCEPT ![r].stage = "running"]
  /\ UNCHANGED <<key, refs, calls, ret, crashed>>

\* BitcoinKey::EIO_VerifySignature: b->result = b->key->VerifySignature(...)
\* on the container the key holds now.  A read that raced with a write or
\* a release of the container has any of the primitive's results, or
\* faults.
EIO_VerifySignature(r) ==
  /\ ~crashed
  /\ batons[r].stage = "running"
  /\ LET b == batons[r]
         done(res) ==
           /\ batons' = [batons EXCEPT ![r].result = res, ![r].stage = "done"]
           /\ UNCHANGED <<key, refs, calls, ret, crashed>>
     IN  IF b.raced
         THEN \/ Segv
              \/ \E res \in {-1, 0, 1} : done(res)
         ELSE IF ECDSA_verify_segv(b.sig, key.ec) THEN Segv
         ELSE done(KeyVerifySignature(key, b.digest, b.sig))

\* The callback arguments with the case -1 falling through to case 0.
CallbackArgv_FallThrough(result) ==
  IF result = -1 \/ result = 0 THEN [err |-> "", res |-> "false"]
  ELSE IF result = 1 THEN [err |-> "", res |-> "true"]
  ELSE [err |-> ErrVerifyUndefined, res |-> "null"]

\* The arguments VerifySignatureCallback builds for the callback function
\* (lines 431-446): argv[0] the error, argv[1] the verdict.
CallbackArgv(result) ==
  IF result = -1 THEN [err |-> ErrVerify, res |-> "null"]
  ELSE IF result = 0 THEN [err |-> "", res |-> "false"]
  ELSE IF result = 1 THEN [err |-> "", res |-> "true"]
  ELSE [err |-> ErrVerifyUndefined, res |-> "null"]

\* VerifySignatureCallback, lines 425-429: the key is unreferenced and the
\* two buffer handles are disposed.
VerifySignatureCallback_Unref(r) ==
  /\ HostCanRun
  /\ batons[r].stage = "done"
  /\ refs' = refs - 1
  /\ batons' = [batons EXCEPT ![r].digestBuf = FALSE, ![r].sigBuf = FALSE,
                              ![r].stage = "released"]
  /\ UNCHANGED <<key, calls, ret, crashed>>

\* VerifySignatureCallback calling the callback function once with the
\* error and once more with the verdict.
VerifySignatureCallback_CallTwice(r, throws) ==
  /\ ~crashed
  /\ batons[r].stage = "released"
  /\ batons' = [batons EXCEPT ![r].argv = CallbackArgv(batons[r].result),
                              ![r].threw = throws,
                              ![r].stage = "called"]
  /\ calls' = [calls EXCEPT ![r] = @ + 2]
  /\ UNCHANGED <<key, refs, ret, crashed>>

\* VerifySignatureCallback, lines 431-450: the callback function is called
\* with argv; it returns or throws.
VerifySignatureCallback_Call(r, throws) ==
  /\ ~crashed
  /\ batons[r].stage = "released"
  /\ batons' = [batons EXCEPT ![r].argv = CallbackArgv(batons[r].result),
                              ![r].threw = throws,
                              ![r].stage = "called"]
  /\ calls' = [calls EXCEPT ![r] = @ + 1]
  /\ UNCHANGED <<key, refs, ret, crashed>>

\* VerifySignatureCallback leaving through FatalException before the
\* callback handle is disposed when the callback function threw.
VerifySignatureCallback_DeleteUnlessThrown(r) ==
  /\ ~crashed
  /\ batons[r].stage = "called"
  /\ batons' = [batons EXCEPT ![r] =
                 [NoBaton("deleted") EXCEPT !.cb = batons[r].threw]]
  /\ UNCHANGED <<key, refs, calls, ret, crashed>>

\* VerifySignatureCallback, lines 453-460: the callback handle is disposed,
\* baton and work item are deleted; a caught exception goes to
\* FatalException.
VerifySignatureCallback_Delete(r) ==
  /\ ~crashed
  /\ batons[r].stage = "called"
  /\ batons' = [batons EXCEPT ![r] = NoBaton("deleted")]
  /\ UNCHANGED <<key, refs, calls, ret, crashed>>

\* ------------------------------------------------------- specification
\* The operations that only read the key (getPrivate, getPublic, toDER,
\* fromDER, signSync, verifySignatureSync) and generateSync touch no baton
\* and run to their end on the event loop thread; the caller issues them
\* while no request is in flight.  The
\* operations that write the key, and verifySignature itself, are issued at
\* any time the script can run.
Quiet == \A r \in Reqs : batons[r].stage \in {"free", "deleted"}
Next ==
  \/ \E bytes \in PrivInputs : SetPrivate(bytes)
  \/ \E bytes \in PubInputs : SetPublic(bytes)
  \/ \E c \in RegenInputs : RegenerateSync(c[1], c[2])
  \/ Quiet /\ \E heap \in HeapBytes : GetPrivate(heap)
  \/ Quiet /\ GetPublic
  \/ Quiet /\ \E curve, lib \in BOOLEAN : GenerateSync(curve, lib)
  \/ Quiet /\ \E lib \in BOOLEAN : ToDER(lib)
  \/ Quiet /\ \E der \in DerInputs, c1, c2 \in BOOLEAN : FromDER(der, c1, c2)
  \/ Quiet /\ \E hash \in Digests, lib \in BOOLEAN : SignSync(hash, lib)
  \/ Quiet /\ \E hash \in Digests, sig \in SigInputs : VerifySignatureSync(hash, sig)
  \/ \E hash \in Digests, sig \in SigInputs : VerifySignature(hash, sig)
  \/ \E r \in Reqs : EIO_Begin(r)
  \/ \E r \in Reqs : EIO_VerifySignature(r)
  \/ \E r \in Reqs : VerifySignatureCallback_Unref(r)
  \/ \E r \in Reqs, throws \in BOOLEAN : VerifySignatureCallback_Call(r, throws)
  \/ \E r \in Reqs : VerifySignatureCallback_Delete(r)

Spec == Init /\ [][Next]_vars

\* The worker pool runs every queued work item, and the event loop runs the
\* completion callback of every finished one (libuv hands finished items
\* to the loop in order, so none is passed over for ever) and finishes a
\* callback it has begun.  The script is free to stop calling.
Fairness ==
  \A r \in Reqs :
    /\ WF_vars(EIO_Begin(r) \/ EIO_VerifySignature(r))
    /\ SF_vars(VerifySignatureCallback_Unref(r))
    /\ WF_vars(\/ \E throws \in BOOLEAN : VerifySignatureCallback_Call(r, throws)
               \/ VerifySignatureCallback_Delete(r))

FairSpec == Spec /\ Fairness

\* ================================================================ claims
InFlight(r) == batons[r].stage \in {"queued", "running", "done", "released"}

\* ------------------------------------------------------------------- C1
\* The callback function of a request has not been called while the
\* request is queued, running, finished or being completed, and has been
\* called exactly once from then on.
C1_CalledOnceAfterCompute ==
  \A r \in Reqs :
    /\ InFlight(r) => calls[r] = 0
    /\ batons[r].stage \in {"called", "deleted"} => calls[r] = 1
    /\ batons[r].stage = "free" => calls[r] = 0

Retaining(stages) == Cardinality({r \in Reqs : batons[r].stage \in stages})

\* C2 as stated: the key's reference and both buffer handles of a request
\* are held until its callback function has been called.
C2_HeldUntilCalled ==
  /\ refs >= Retaining({"queued", "running", "done", "released"})
  /\ \A r \in Reqs : InFlight(r) => batons[r].digestBuf /\ batons[r].sigBuf

\* C2 amended: the key's reference and both buffer handles of a request
\* are held from queueing through the whole background computation, until
\* the completion callback begins; the completion callback drops them as
\* its first step, before it calls the callback function, whose handle
\* alone is held through the call.
C2_HeldThroughCompute ==
  /\ refs = Retaining({"queued", "running", "done"})
  /\ \A r \in Reqs :
       /\ batons[r].stage \in {"queued", "running", "done"} =>
            batons[r].digestBuf /\ batons[r].sigBuf /\ batons[r].cb
       /\ batons[r].stage \in {"released", "called"} =>
            ~batons[r].digestBuf /\ ~batons[r].sigBuf /\ batons[r].cb

C2_Witness ==
  \E r \in Reqs :
    /\ batons[r].stage = "released"
    /\ ~batons[r].digestBuf /\ ~batons[r].sigBuf
    /\ calls[r] = 0
    /\ refs = 0

\* ------------------------------------------------------------------- C3
\* The three-way outcome of what verifySignatureSync gives back and of the
\* arguments a callback function receives.
SyncOutcome(v) ==
  IF v.kind = "true" THEN "Valid"
  ELSE IF v.kind = "false" THEN "Invalid"
  ELSE IF v.kind = "throw" /\ v.msg = ErrVerify THEN "Indeterminate"
  ELSE v.msg
AsyncOutcome(argv) ==
  IF argv.err = "" /\ argv.res = "true" THEN "Valid"
  ELSE IF argv.err = "" /\ argv.res = "false" THEN "Invalid"
  ELSE IF argv.err = ErrVerify THEN "Indeterminate"
  ELSE argv.err

\* C3: a request whose key was not written between queueing and completion
\* delivers to its callback function the outcome verifySignatureSync gives
\* for the same key, digest and signature; and both paths map every result
\* of the primitive to the same outcome.
C3_AsyncEqualsSync ==
  /\ \A r \in Reqs :
       batons[r].stage = "called" /\ ~batons[r].mutated =>
         AsyncOutcome(batons[r].argv) =
           SyncOutcome(VerifySignatureSyncValue(key, batons[r].digest,
                                                batons[r].sig))
  /\ \A result \in -2..2 :
       AsyncOutcome(CallbackArgv(result)) = SyncOutcome(VerifySyncReturn(result))

C3_Witness ==
  \E r \in Reqs :
    /\ batons[r].stage = "called"
    /\ ~batons[r].mutated
    /\ batons[r].argv.res = "true"

\* ------------------------------------------------------------------- C4
\* A key with both materials where publicPoint = privateScalar * generator.
ValidPair(k) ==
  /\ k.hasPrivate /\ k.hasPublic /\ k.ec.alloc
  /\ k.ec.priv \in Scalars
  /\ k.ec.pub = EC_POINT_mul(k.ec.priv)

\* C4: on a key that holds a valid pair, signSync of a 32-byte digest (the
\* signing primitive not failing) gives signature bytes for which
\* verifySignatureSync on the same key and digest gives true.
C4_SignThenVerify ==
  [][\A hash \in Digests :
       ValidPair(key) /\ hash.len = HashLen /\ SignSync(hash, TRUE) =>
         /\ ret'.kind = "bytes"
         /\ VerifySignatureSyncValue(key', hash, ret'.val).kind = "true"]_vars

C4_Witness ==
  /\ ret.op = "signSync" /\ ret.kind = "bytes"
  /\ ValidPair(key)
  /\ \E hash \in Digests :
       VerifySignatureSyncValue(key, hash, ret.val).kind = "true"

\* ------------------------------------------------------------------- C5
\* C5: the Key that fromDER gives for the bytes toDER gave for a valid pair
\* has hasPrivate and hasPublic and the scalar and point of that pair.
C5_RoundTrip ==
  [][ret.op = "toDER" /\ ret.kind = "bytes" /\ ValidPair(key)
       /\ FromDER(ret.val, TRUE, TRUE) =>
         /\ ret'.kind = "key"
         /\ ret'.obj.hasPrivate /\ ret'.obj.hasPublic
         /\ ret'.obj.ec.priv = key.ec.priv
         /\ ret'.obj.ec.pub = key.ec.pub]_vars

C7_NoSynchronousError ==
  [][\A hash \in Digests, sig \in SigInputs :
       VerifySignature(hash, sig) => ret'.kind # "throw"]_vars

\* C7 amended: the outcome of the background computation, success or
\* error, reaches the caller through the callback function only, and the
\* accepted call itself returns undefined; a missing public key and a
\* digest whose length is not 32 are thrown to the caller of
\* verifySignature, and then nothing is queued and no callback function is
\* ever called for that call.
C7_ChecksThrownOutcomeDelivered ==
  [][ /\ \A hash \in Digests, sig \in SigInputs :
          VerifySignature(hash, sig) =>
            IF ~key.hasPublic \/ hash.len # HashLen
            THEN /\ ret'.kind = "throw"
                 /\ ret'.msg = IF ~key.hasPublic THEN ErrNoPublic ELSE ErrHashLen
                 /\ UNCHANGED <<key, refs, batons, calls>>
            ELSE /\ ret'.kind = "undefined"
                 /\ \E r \in Reqs : /\ batons[r].stage \in {"free", "deleted"}
                                    /\ batons'[r].stage = "queued"
                                    /\ batons'[r].cb
      /\ \A r \in Reqs, throws \in BOOLEAN :
          VerifySignatureCallback_Call(r, throws) =>
            /\ ret' = ret
            /\ batons'[r].argv.err = ErrVerify <=> batons[r].result = -1
            /\ batons'[r].argv.res = "true" <=> batons[r].result = 1
            /\ batons'[r].argv.res = "false" <=> batons[r].result = 0]_vars

C7_Witness ==
  /\ ret.op = "verifySignature" /\ ret.kind = "throw"
  /\ ret.msg = ErrHashLen
  /\ \A r \in Reqs : batons[r].stage = "free"

\* ------------------------------------------------------------------- C8
\* The operation did nothing but report: key, references and requests are
\* as before and no library primitive ran.
OnlyReported == ret'.prims = {} /\ UNCHANGED <<key, refs, batons, calls, crashed>>

\* C8: signSync and regenerateSync on a key without hasPrivate, and
\* verifySignatureSync and verifySignature on a key without hasPublic,
\* throw the precondition error of the operation and do nothing else; on a
\* key with public material only, signSync throws it while
\* verifySignatureSync of a matching signature gives true.
C8_PreconditionError ==
  [][ /\ \A hash \in Digests, lib \in BOOLEAN :
          ~key.hasPrivate /\ SignSync(hash, lib) =>
            ret'.kind = "throw" /\ ret'.msg = ErrNoPrivate /\ OnlyReported
      /\ \A c \in RegenInputs :
          ~key.hasPrivate /\ RegenerateSync(c[1], c[2]) =>
            ret'.kind = "throw" /\ ret'.msg = ErrRegenerate /\ OnlyReported
      /\ \A hash \in Digests, sig \in SigInputs :
          ~key.hasPublic /\ VerifySignatureSync(hash, sig) =>
            ret'.kind = "throw" /\ ret'.msg = ErrNoPublic /\ OnlyReported
      /\ \A hash \in Digests, sig \in SigInputs :
          ~key.hasPublic /\ VerifySignature(hash, sig) =>
            ret'.kind = "throw" /\ ret'.msg = ErrNoPublic /\ OnlyReported
      /\ \A hash \in Digests, sig \in SigInputs :
          /\ key.hasPublic /\ ~key.hasPrivate /\ key.ec.alloc
          /\ hash.len = HashLen /\ SigWellFormed(sig)
          /\ key.ec.pub \in Scalars
          /\ key.ec.pub = EC_POINT_mul(d2i_ECDSA_SIG(sig).signer)
          /\ d2i_ECDSA_SIG(sig).dg = hash.val
          /\ VerifySignatureSync(hash, sig)
          => ret'.kind = "true"]_vars

C8_Witness ==
  /\ ret.op = "signSync" /\ ret.kind = "throw" /\ ret.msg = ErrNoPrivate
  /\ key.hasPublic /\ ~key.hasPrivate /\ key.ec.pub \in Scalars

\* ------------------------------------------------------------------- C9
\* C9 as stated: with a digest whose length is not 32, signSync,
\* verifySignatureSync and verifySignature throw the digest-length error,
\* whatever the key holds.
C9_AlwaysInvalidInput ==
  [][ /\ \A hash \in Digests, lib \in BOOLEAN :
          hash.len # HashLen /\ SignSync(hash, lib) =>
            ret'.kind = "throw" /\ ret'.msg = ErrHashLen
      /\ \A hash \in Digests, sig \in SigInputs :
          hash.len # HashLen /\ VerifySignatureSync(hash, sig) =>
            ret'.kind = "throw" /\ ret'.msg = ErrHashLen
      /\ \A hash \in Digests, sig \in SigInputs :
          hash.len # HashLen /\ VerifySignature(hash, sig) =>
            ret'.kind = "throw" /\ ret'.msg = ErrHashLen]_vars

\* C9 amended: with a digest whose length is not 32 the three operations
\* always throw, run no primitive, queue nothing and leave the key as it
\* is; the error is the digest-length error when the key holds the
\* material the operation requires (hasPrivate for signSync, hasPublic for
\* the two verifies), and the precondition error of the operation when it
\* does not, because the material is checked first.
C9_InvalidInputAfterPrecondition ==
  [][ /\ \A hash \in Digests, lib \in BOOLEAN :
          hash.len # HashLen /\ SignSync(hash, lib) =>
            /\ ret'.kind = "throw" /\ OnlyReported
            /\ ret'.msg = IF key.hasPrivate THEN ErrHashLen ELSE ErrNoPrivate
      /\ \A hash \in Digests, sig \in SigInputs :
          hash.len # HashLen /\ VerifySignatureSync(hash, sig) =>
            /\ ret'.kind = "throw" /\ OnlyReported
            /\ ret'.msg = IF key.hasPublic THEN ErrHashLen ELSE ErrNoPublic
      /\ \A hash \in Digests, sig \in SigInputs :
          hash.len # HashLen /\ VerifySignature(hash, sig) =>
            /\ ret'.kind = "throw" /\ OnlyReported
            /\ ret'.msg = IF key.hasPublic THEN ErrHashLen ELSE ErrNoPublic]_vars

C9_Witness ==
  /\ ret.kind = "throw" /\ ret.msg = ErrHashLen
  /\ ret.op = "verifySignature"
  /\ key.hasPublic

\* ------------------------------------------------------------------ C10
\* C10: a regenerateSync whose recomputation of the public point fails (no
\* container, or the point multiplication fails) leaves the key with its
\* previous container: flags, scalar and point as before the call.
C10_FailedRegenerateKeepsKey ==
  [][\A c \in RegenInputs :
       /\ key.hasPrivate /\ key.ec.alloc
       /\ ~c[1] \/ c[2] # "ok"
       /\ RegenerateSync(c[1], c[2])
       => key' = key]_vars

\* ------------------------------------------------------------------ C11
\* Bytes that are no encoding of a point of the curve.
MalformedPoint(bytes) ==
  /\ bytes # <<0>>
  /\ ~(Len(bytes) = 2 /\ bytes[1] = Sec1Uncompressed /\ bytes[2] \in Scalars)

\* C11: setPublic with bytes that do not decode to a point of the curve
\* reports an error to its caller and leaves the key (both flags, scalar
\* and point) as it was.
C11_MalformedPointRejected ==
  [][\A bytes \in PubInputs :
       MalformedPoint(bytes) /\ SetPublic(bytes) =>
         /\ ret'.kind = "throw"
         /\ key' = key]_vars

\* ------------------------------------------------------------------ C12
\* C12: setPrivate with bytes that encode a scalar in 1..Order-1 stores
\* that scalar, and after a regenerateSync that follows it and reports no
\* error the key has both flags, the same scalar, and the point
\* scalar * generator.
C12_SetPrivateThenRegenerate ==
  [][ /\ \A bytes \in PrivInputs :
          BN_bin2bn(bytes) \in Scalars /\ SetPrivate(bytes) =>
            key'.hasPrivate /\ key'.ec.priv = BN_bin2bn(bytes)
      /\ \A c \in RegenInputs :
          /\ ret.op = "setPrivate" /\ key.ec.priv \in Scalars
          /\ RegenerateSync(c[1], c[2])
          /\ ret'.kind # "throw"
          => /\ key'.hasPrivate /\ key'.hasPublic
             /\ key'.ec.priv = key.ec.priv
             /\ key'.ec.pub = EC_POINT_mul(key'.ec.priv)]_vars

\* ------------------------------------------------------------------ C13
\* The PrivLen-byte big-endian encoding of a scalar, zeros in front.
ZeroPadded(n) == [i \in 1..(PrivLen - BN_num_bytes(n)) |-> 0] \o BN_bn2bin(n)

\* C13: getPrivate on a key that holds the scalar s in 1..Order-1 returns
\* the PrivLen bytes of s with zeros in front, and the scalar setPrivate
\* reads from those bytes is s.
C13_GetPrivateZeroPadded ==
  [][\A heap \in HeapBytes :
       /\ key.hasPrivate /\ key.ec.alloc /\ key.ec.priv \in Scalars
       /\ GetPrivate(heap)
       => /\ ret'.kind = "bytes"
          /\ ret'.val = ZeroPadded(key.ec.priv)
          /\ BN_bin2bn(ret'.val) = key.ec.priv]_vars

\* ------------------------------------------------------------------ C14
\* C14: setPrivate leaves hasPublic and the public point as they are;
\* getPublic on a key without hasPublic returns null; and a key without
\* hasPublic gets it only by regenerateSync, setPublic or generateSync, so
\* that after setPrivate calls alone getPublic keeps returning null.
C14_SetPrivateFrame ==
  [][ /\ \A bytes \in PrivInputs :
          SetPrivate(bytes) =>
            /\ key'.hasPublic = key.hasPublic
            /\ key'.ec.pub = key.ec.pub
            /\ key'.ec.alloc = key.ec.alloc
      /\ ~key.hasPublic /\ GetPublic => ret'.kind = "null"
      /\ ~key.hasPublic /\ key'.hasPublic =>
           ret'.op \in {"regenerateSync", "setPublic", "generateSync"}]_vars

C14_Witness ==
  /\ ret.op = "getPublic" /\ ret.kind = "null"
  /\ key.hasPrivate /\ key.ec.priv \in Scalars
  /\ ~key.hasPublic /\ key.ec.pub = NULL

\* ------------------------------------------------------------------ C15
\* C15: when signSync is called on a key with hasPrivate and a 32-byte
\* digest and the signing primitive gives no signature, signSync throws an
\* error to its caller, the DER encoder is not run on the missing
\* signature, and the key is unchanged.
C15_SigningErrorThrown ==
  [][\A hash \in Digests, lib \in BOOLEAN :
       /\ key.hasPrivate /\ key.ec.alloc /\ hash.len = HashLen
       /\ Sign(key, hash, lib) = <<>>
       /\ SignSync(hash, lib)
       => /\ ret'.kind = "throw"
          /\ "i2d_ECDSA_SIG" \notin ret'.prims
          /\ key' = key]_vars

\* ------------------------------------------------------------------ C16
\* C16: generateSync has three outcomes.  When the curve cannot be
\* instantiated it throws the curve error and uses no key object; when the
\* random-key primitive fails it throws that primitive's error; else it
\* returns a key with both flags, a scalar and the point of that scalar.
\* A key with part of the material is never returned.
C16_GenerateOutcomes ==
  [][\A curve, lib \in BOOLEAN :
       GenerateSync(curve, lib) =>
         /\ ~crashed'
         /\ IF ~curve
            THEN ret'.kind = "throw" /\ ret'.msg = ErrCurve /\ ret'.prims = {}
            ELSE IF ~lib
            THEN ret'.kind = "throw" /\ ret'.msg = ErrGenerate
            ELSE /\ ret'.kind = "key"
                 /\ ret'.obj.hasPrivate /\ ret'.obj.hasPublic
                 /\ ret'.obj.ec.priv \in Scalars
                 /\ ret'.obj.ec.pub = EC_POINT_mul(ret'.obj.ec.priv)]_vars

\* ------------------------------------------------------------------ C17
\* C17: toDER leaves the key as it is; it returns null exactly when
\* hasPrivate or hasPublic is false; when both are true it returns the DER
\* bytes, or throws an error when the encoder fails.
C17_AbsentOnlyForMissingMaterial ==
  [][\A lib \in BOOLEAN :
       ToDER(lib) =>
         /\ key' = key
         /\ ret'.kind = "null" <=> ~key.hasPrivate \/ ~key.hasPublic
         /\ key.hasPrivate /\ key.hasPublic =>
              \/ ret'.kind = "bytes" /\ ret'.val = i2d_ECPrivateKey(key.ec)
              \/ ret'.kind = "throw"]_vars

\* ------------------------------------------------------------------ C18
\* The container of k holds a scalar exactly when hasPrivate, and a point
\* exactly when hasPublic.
FlagsMatchMaterial(k) ==
  /\ k.hasPrivate <=> k.ec.alloc /\ k.ec.priv # NULL
  /\ k.hasPublic <=> k.ec.alloc /\ k.ec.pub # NULL

\* C18: in every reachable state the key the caller works on, and every
\* key an operation returns, holds a scalar iff hasPrivate and a point iff
\* hasPublic.
C18_FlagsIffMaterial ==
  /\ FlagsMatchMaterial(key)
  /\ ret.kind = "key" => FlagsMatchMaterial(ret.obj)

\* ------------------------------------------------------------------ C19
\* The handles of request r that are held.
Held(b) == {h \in {"digestBuf", "sigBuf", "cb"} : b[h]}

Pending == \E r \in Reqs : batons[r].stage \in {"queued", "running", "done"}

====
